---- MODULE Spec2Model ----
(***************************************************************************)
(* Model of the CBI builder of skaffold: CBIBuilder.Build, RunCBIBuild,    *)
(* runCBIBuildV1Alpha1, the two polling loops, the temporary nginx         *)
(* (TempNginx.Create / Delete / Copy) and the BuildJob template            *)
(* (GetBuildJobTemplate / Fulfill).                                        *)
(*                                                                         *)
(* One Build call is one behaviour.  pc is the position of the calling     *)
(* goroutine; createPc and pkgPc are the positions of the two errgroup     *)
(* goroutines.  runDefers and monDefers are the defer stacks of            *)
(* RunCBIBuild and runCBIBuildV1Alpha1.  pods, services and jobs are the   *)
(* objects living in the control plane.  log is the history of the         *)
(* operations of the calling goroutine for the current artifact.            *)
(***************************************************************************)
EXTENDS Integers, Sequences, FiniteSets, TLC

\* ------------------------------------------------------------------ bounds
\* number of artifacts handed to Build
MaxArtifacts == 2
\* number of condition calls wait.PollImmediate makes before ErrWaitTimeout
\* (3 min / 500 ms and 60 min / 500 ms in the code, scaled down)
ReadyMaxPolls == 2
CompletionMaxPolls == 2
\* largest value of job.Status.Failed
MaxFailed == 2
\* number of Fulfill calls made on one template
MaxFulfillCalls == 2

\* ------------------------------------------------------------------ values
V1Alpha1 == "cbi.containerbuilding.github.io/v1alpha1"
OtherVersion == "cbi.containerbuilding.github.io/v2"
\* the empty string, for the fields that hold names, references and URLs
EmptyName == <<>>
\* a nil *BuildResult / a nil template
Nil == <<"nil">>

JobStatuses == [completed : BOOLEAN, failed : 0..MaxFailed]
NoStatus == [completed |-> FALSE, failed |-> -1]

Err(kind, st) == [kind |-> kind, status |-> st, wrap |-> <<>>]
NoErr == Err("nil", NoStatus)
\* errors.Wrap / errors.Wrapf: the cause is kept, a message is prepended
Wrap(e, msg) == [e EXCEPT !.wrap = <<msg>> \o @]

RandomIDs == {"r1", "r2"}
\* the templates a user declares: nothing set; version, name and target set; an
\* unsupported version; a field the BuildJob type does not have
TemplateDecls ==
    {[apiVersion |-> "", name |-> EmptyName, target |-> EmptyName, unknownField |-> FALSE],
     [apiVersion |-> V1Alpha1, name |-> <<"userjob">>, target |-> <<"stale">>,
      unknownField |-> FALSE],
     [apiVersion |-> OtherVersion, name |-> EmptyName, target |-> EmptyName,
      unknownField |-> FALSE],
     [apiVersion |-> "", name |-> EmptyName, target |-> EmptyName, unknownField |-> TRUE]}

Ev(op, ok) == [op |-> op, ok |-> ok]

VARIABLES
    n,            \* len(artifacts)
    tmplDecl,     \* CBIBuild.BuildJobTemplate as declared by the user
    cbiT,         \* the cbiBuildJobTemplateV1Alpha1 shared by the whole Build (its bj)
    res,          \* res.Builds
    buildRet,     \* what Build returned
    cur,          \* index of the artifact of the loop
    got,          \* what RunCBIBuild delivered to Build (after its defers)
    pc,
    cancelled,    \* ctx.Done() is closed
    nginx,        \* TempNginx: x.pod.Name, x.service.Name
    runDefers,    \* defer stack of RunCBIBuild
    runRet,       \* operands of the return statement RunCBIBuild executed
    createPc,     \* goroutine 1 of the errgroup: nginx.Create
    pkgPc,        \* goroutine 2 of the errgroup: the tar.gz writer
    egErr,        \* errgroup: the first non-nil error
    imageDst,
    ctxTarURL,
    nginxDelErr,  \* what the deferred nginx.Delete returned
    monDefers,    \* defer stack of runCBIBuildV1Alpha1
    monRet,       \* what runCBIBuildV1Alpha1 returned
    bjName,       \* bj.Name of runCBIBuildV1Alpha1's bj
    bjStatusJob,  \* bj.Status.Job
    readyAt,      \* the poll at which the status source first reports Status.Job
    readyPolls,   \* calls of the readiness condition made
    complPolls,   \* calls of the completion condition made
    lastFetch,    \* the last job status fetched by waitJobCompletion
    complRes,     \* outcome of the completion poll
    logProc,      \* the kubectl logs --follow process
    usedJob,      \* the job names waitJobPodReady, kubectl logs, waitJobCompletion got
    pods, services, jobs,              \* objects in the control plane
    podsCreated, svcsCreated,          \* every object ever created there
    podDelReq, svcDelReq, jobDelReq,   \* names for which a delete request was sent
    registry,     \* image references existing in the registry
    nginxSeq,     \* NewTempNginx calls so far (the names are unique)
    genSeq,       \* generated BuildJob names so far
    touched,      \* artifacts for which RunCBIBuild was entered
    submitted,    \* bj.Name of every BuildJob handed to BuildJobs.Create, in order
    log           \* operations performed for artifact cur, in order

buildVars == <<n, tmplDecl, cbiT, res, buildRet, cur, got>>
runVars == <<nginx, runDefers, runRet, createPc, pkgPc, egErr, imageDst, ctxTarURL, nginxDelErr>>
monVars == <<monDefers, monRet, bjName, bjStatusJob, readyAt, readyPolls, complPolls,
             lastFetch, complRes, logProc, usedJob>>
cpVars == <<pods, services, jobs, podsCreated, svcsCreated, podDelReq, svcDelReq, jobDelReq,
           registry>>
histVars == <<nginxSeq, genSeq, touched, submitted>>
vars == <<buildVars, runVars, monVars, cpVars, histVars, pc, cancelled, log>>

\* ------------------------------------------------------------------ helpers
\* deferred calls run in the order of their defer statements
PushLast(stack, d) == stack \o <<d>>

\* a defer statement: the call is put on top of the function's defer stack
Push(stack, d) == <<d>> \o stack
Has(op, ok) == \E k \in DOMAIN log : log[k] = Ev(op, ok)
Did(op) == \E k \in DOMAIN log : log[k].op = op
Count(op) == Cardinality({k \in DOMAIN log : log[k].op = op})

ImageName(i) == <<"image", i>>

\* the locals of one RunCBIBuild / runCBIBuildV1Alpha1 call, before the call
FreshRun ==
    /\ nginx = [pod |-> EmptyName, service |-> EmptyName]
    /\ runDefers = <<>>
    /\ runRet = [val |-> EmptyName, err |-> NoErr]
    /\ createPc = "idle"
    /\ pkgPc = "idle"
    /\ egErr = NoErr
    /\ imageDst = EmptyName
    /\ ctxTarURL = EmptyName
    /\ nginxDelErr = NoErr
FreshMon ==
    /\ monDefers = <<>>
    /\ monRet = NoErr
    /\ bjName = EmptyName
    /\ bjStatusJob = EmptyName
    /\ readyAt = 0
    /\ readyPolls = 0
    /\ complPolls = 0
    /\ lastFetch = [ok |-> FALSE, status |-> NoStatus]
    /\ complRes = "none"
    /\ logProc = "none"
    /\ usedJob = <<>>

Init ==
    /\ n \in 1..MaxArtifacts
    /\ tmplDecl \in TemplateDecls
    /\ cbiT = Nil
    /\ res = <<>>
    /\ buildRet = [res |-> Nil, err |-> NoErr]
    /\ cur = 0
    /\ got = [val |-> EmptyName, err |-> NoErr]
    /\ pc = "Build_GetTemplate"
    /\ cancelled = FALSE
    /\ FreshRun
    /\ FreshMon
    /\ pods = {} /\ services = {} /\ jobs = {}
    /\ podsCreated = {} /\ svcsCreated = {}
    /\ podDelReq = {} /\ svcDelReq = {} /\ jobDelReq = {}
    /\ registry = {}
    /\ nginxSeq = 0 /\ genSeq = 0 /\ touched = {} /\ submitted = <<>>
    /\ log = <<>>

\* ------------------------------------------------------------------ template
\* yaml.UnmarshalStrict of the declared template into a cbiv1alpha1.BuildJob
Unmarshal(decl) ==
    [apiVersion |-> decl.apiVersion, kind |-> "", name |-> decl.name, langKind |-> "",
     target |-> decl.target, push |-> FALSE, ctxKind |-> "", ctxURL |-> EmptyName,
     secretRef |-> <<"regcred">>]

\* the declared apiVersion is not compared with the supported one
GetBuildJobTemplateAnyVersion(decl) ==
    IF decl.unknownField
    THEN [t |-> Nil, err |-> Err("yaml: unknown field", NoStatus)]
    ELSE [t |-> Unmarshal(decl), err |-> NoErr]

\* CBIBuild.GetBuildJobTemplate: the scan for apiVersion, then the strict unmarshal
GetBuildJobTemplate(decl) ==
    IF decl.apiVersion # "" /\ decl.apiVersion # V1Alpha1
    THEN [t |-> Nil, err |-> Err("expected v1alpha1", NoStatus)]
    ELSE IF decl.unknownField
    THEN [t |-> Nil, err |-> Err("yaml: unknown field", NoStatus)]
    ELSE [t |-> Unmarshal(decl), err |-> NoErr]

\* cbiBuildJobTemplateV1Alpha1.APIVersion
APIVersion(t) == V1Alpha1

\* the registry target is filled like a default, only if empty
FulfillTargetIfEmpty(bj, imageName, httpContextURL, gen) ==
    [bj EXCEPT !.apiVersion = IF @ = "" THEN V1Alpha1 ELSE @,
               !.kind = IF @ = "" THEN "BuildJob" ELSE @,
               !.name = IF @ = EmptyName THEN gen ELSE @,
               !.langKind = IF @ = "" THEN "Dockerfile" ELSE @,
               !.target = IF @ = EmptyName THEN imageName ELSE @,
               !.push = TRUE,
               !.ctxKind = "HTTP",
               !.ctxURL = httpContextURL]

\* the registry target is the image name under the fixed tag "latest"
FulfillTargetLatest(bj, imageName, httpContextURL, gen) ==
    [bj EXCEPT !.apiVersion = IF @ = "" THEN V1Alpha1 ELSE @,
               !.kind = IF @ = "" THEN "BuildJob" ELSE @,
               !.name = IF @ = EmptyName THEN gen ELSE @,
               !.langKind = IF @ = "" THEN "Dockerfile" ELSE @,
               !.target = <<imageName[1], "latest">>,
               !.push = TRUE,
               !.ctxKind = "HTTP",
               !.ctxURL = httpContextURL]

\* the name is generated even if the template has one
FulfillAlwaysNames(bj, imageName, httpContextURL, gen) ==
    [bj EXCEPT !.apiVersion = IF @ = "" THEN V1Alpha1 ELSE @,
               !.kind = IF @ = "" THEN "BuildJob" ELSE @,
               !.name = gen,
               !.langKind = IF @ = "" THEN "Dockerfile" ELSE @,
               !.target = imageName,
               !.push = TRUE,
               !.ctxKind = "HTTP",
               !.ctxURL = httpContextURL]

\* cbiBuildJobTemplateV1Alpha1.Fulfill; gen is the name fmt.Sprintf generates
Fulfill(bj, imageName, httpContextURL, gen) ==
    [bj EXCEPT !.apiVersion = IF @ = "" THEN V1Alpha1 ELSE @,
               !.kind = IF @ = "" THEN "BuildJob" ELSE @,
               !.name = IF @ = EmptyName THEN gen ELSE @,
               !.langKind = IF @ = "" THEN "Dockerfile" ELSE @,
               !.target = imageName,
               !.push = TRUE,
               !.ctxKind = "HTTP",
               !.ctxURL = httpContextURL]

\* ------------------------------------------------------------------ Build
\* the builds accumulated so far are returned next to the error
BuildFailKeepBuilds(builds, err) == [res |-> builds, err |-> err]

\* every `return nil, err` of Build
BuildFail(builds, err) == [res |-> Nil, err |-> err]

\* the loop goes on with the next artifact
BuildErrContinue(c, total) == IF c < total THEN "Build_Loop" ELSE "Build_Done"

\* where Build goes when a step of artifact c fails: it returns
BuildErrPc(c, total) == "Build_Done"

\* Build, line 241-244
Build_GetTemplate ==
    /\ pc = "Build_GetTemplate"
    /\ LET r == GetBuildJobTemplate(tmplDecl) IN
        /\ log' = Append(log, Ev("GetBuildJobTemplate", r.err = NoErr))
        /\ IF r.err # NoErr
           THEN /\ buildRet' = BuildFail(res, r.err)
                /\ pc' = "Build_Done"
                /\ cbiT' = cbiT
           ELSE /\ cbiT' = r.t
                /\ pc' = "Build_GetClientConfig"
                /\ buildRet' = buildRet
    /\ UNCHANGED <<n, tmplDecl, res, cur, got, runVars, monVars, cpVars, histVars, cancelled>>

\* Build, line 245-249
Build_GetClientConfig ==
    /\ pc = "Build_GetClientConfig"
    /\ \E ok \in BOOLEAN :
        /\ log' = Append(log, Ev("GetClientConfig", ok))
        /\ IF ok
           THEN pc' = "Build_Loop" /\ buildRet' = buildRet
           ELSE /\ buildRet' = BuildFail(res, Err("Error creating kubeConfig", NoStatus))
                /\ pc' = "Build_Done"
    /\ UNCHANGED <<n, tmplDecl, cbiT, res, cur, got, runVars, monVars, cpVars, histVars, cancelled>>

\* Build, line 253-254: the next artifact of the range loop; RunCBIBuild is entered
\* with fresh locals
Build_NextArtifact ==
    /\ pc = "Build_Loop"
    /\ cur < n
    /\ cur' = cur + 1
    /\ touched' = touched \cup {cur + 1}
    /\ pc' = "Run_Enter"
    /\ log' = <<>>
    /\ nginx' = [pod |-> EmptyName, service |-> EmptyName]
    /\ runDefers' = <<>>
    /\ runRet' = [val |-> EmptyName, err |-> NoErr]
    /\ createPc' = "idle"
    /\ pkgPc' = "idle"
    /\ egErr' = NoErr
    /\ imageDst' = EmptyName
    /\ ctxTarURL' = EmptyName
    /\ nginxDelErr' = NoErr
    /\ monDefers' = <<>>
    /\ monRet' = NoErr
    /\ bjName' = EmptyName
    /\ bjStatusJob' = EmptyName
    /\ readyAt' = 0
    /\ readyPolls' = 0
    /\ complPolls' = 0
    /\ lastFetch' = [ok |-> FALSE, status |-> NoStatus]
    /\ complRes' = "none"
    /\ logProc' = "none"
    /\ usedJob' = <<>>
    /\ got' = [val |-> EmptyName, err |-> NoErr]
    /\ UNCHANGED <<n, tmplDecl, cbiT, res, buildRet, cpVars, nginxSeq, genSeq, submitted,
                   cancelled>>

\* Build, line 281
Build_ReturnRes ==
    /\ pc = "Build_Loop"
    /\ cur >= n
    /\ buildRet' = [res |-> res, err |-> NoErr]
    /\ pc' = "Build_Done"
    /\ UNCHANGED <<n, tmplDecl, cbiT, res, cur, got, runVars, monVars, cpVars, histVars,
                   cancelled, log>>

\* the caller closes ctx.Done() at any moment
Cancel ==
    /\ ~cancelled
    /\ pc # "Build_Done"
    /\ cancelled' = TRUE
    /\ logProc' = IF logProc = "running" THEN "killed by ctx" ELSE logProc
    /\ UNCHANGED <<buildVars, runVars, monDefers, monRet, bjName, bjStatusJob, readyAt,
                   readyPolls, complPolls, lastFetch, complRes, usedJob, cpVars, histVars,
                   pc, log>>

\* ------------------------------------------------------------------ TempNginx
\* NewTempNginx: pod and service carry the same generated name
NewTempNginx(k) == [pod |-> <<"tempnginx", k>>, service |-> <<"tempnginx", k>>]

\* x.podClient.Create / x.serviceClient.Create: the typed client returns the created
\* object, or an empty object together with the error
CreatedHandle(name, ok) == IF ok THEN name ELSE EmptyName

\* the error of a step is dropped and Create goes on
CreateGoesOn(ok, next) == next

\* TempNginx.Create, `if err != nil { return err }` after each of its three steps
CreateAfter(ok, next) == IF ok THEN next ELSE "failed"

\* TempNginx.Create, line 104-107 of the nginx file
Create_Pod ==
    /\ createPc = "pod"
    /\ \E ok \in BOOLEAN :
        /\ nginx' = [nginx EXCEPT !.pod = CreatedHandle(nginx.pod, ok)]
        /\ pods' = IF ok THEN pods \cup {nginx.pod} ELSE pods
        /\ podsCreated' = IF ok THEN podsCreated \cup {nginx.pod} ELSE podsCreated
        /\ createPc' = CreateAfter(ok, "svc")
        /\ egErr' = IF ~ok /\ egErr = NoErr THEN Err("pods.Create", NoStatus) ELSE egErr
    /\ UNCHANGED <<buildVars, runDefers, runRet, pkgPc, imageDst, ctxTarURL, nginxDelErr,
                   monVars, services, jobs, svcsCreated, podDelReq, svcDelReq, jobDelReq,
                   registry, histVars, pc, cancelled, log>>

\* TempNginx.Create, line 108-111
Create_Service ==
    /\ createPc = "svc"
    /\ \E ok \in BOOLEAN :
        /\ nginx' = [nginx EXCEPT !.service = CreatedHandle(nginx.service, ok)]
        /\ services' = IF ok THEN services \cup {nginx.service} ELSE services
        /\ svcsCreated' = IF ok THEN svcsCreated \cup {nginx.service} ELSE svcsCreated
        /\ createPc' = CreateAfter(ok, "wait")
        /\ egErr' = IF ~ok /\ egErr = NoErr THEN Err("services.Create", NoStatus) ELSE egErr
    /\ UNCHANGED <<buildVars, runDefers, runRet, pkgPc, imageDst, ctxTarURL, nginxDelErr,
                   monVars, pods, jobs, podsCreated, podDelReq, svcDelReq, jobDelReq,
                   registry, histVars, pc, cancelled, log>>

\* TempNginx.Create, line 112-115
Create_WaitForPodReady ==
    /\ createPc = "wait"
    /\ \E ok \in BOOLEAN :
        /\ createPc' = CreateAfter(ok, "done")
        /\ egErr' = IF ~ok /\ egErr = NoErr THEN Err("WaitForPodReady", NoStatus) ELSE egErr
    /\ UNCHANGED <<buildVars, nginx, runDefers, runRet, pkgPc, imageDst, ctxTarURL,
                   nginxDelErr, monVars, cpVars, histVars, pc, cancelled, log>>

\* RunCBIBuild, line 70-83: the second goroutine writes the tar.gz
Package ==
    /\ pkgPc = "run"
    /\ \E ok \in BOOLEAN :
        /\ pkgPc' = IF ok THEN "done" ELSE "failed"
        /\ egErr' = IF ~ok /\ egErr = NoErr THEN Wrap(Err("CreateTarGz", NoStatus), "creating tar gz")
                    ELSE egErr
    /\ UNCHANGED <<buildVars, nginx, runDefers, runRet, createPc, imageDst, ctxTarURL,
                   nginxDelErr, monVars, cpVars, histVars, pc, cancelled, log>>

\* one Delete call of a typed client: no request leaves for an empty name; a request
\* for an object that does not exist is answered NotFound; any request may fail
DeleteCanSucceed(name, existing) == name # EmptyName /\ name \in existing
DeleteRequested(name, reqs) == IF name # EmptyName THEN reqs \cup {name} ELSE reqs

\* TempNginx.Delete: the service, then the pod unless the service's delete failed
NginxDelete ==
    \E svcOk \in BOOLEAN, podOk \in BOOLEAN :
        /\ svcOk => DeleteCanSucceed(nginx.service, services)
        /\ podOk => svcOk /\ DeleteCanSucceed(nginx.pod, pods)
        /\ svcDelReq' = DeleteRequested(nginx.service, svcDelReq)
        /\ services' = IF svcOk THEN services \ {nginx.service} ELSE services
        /\ podDelReq' = IF svcOk THEN DeleteRequested(nginx.pod, podDelReq) ELSE podDelReq
        /\ pods' = IF podOk THEN pods \ {nginx.pod} ELSE pods
        /\ nginxDelErr' = IF ~svcOk THEN Err("services.Delete", NoStatus)
                          ELSE IF ~podOk THEN Err("pods.Delete", NoStatus) ELSE NoErr
        /\ log' = Append(log, Ev("nginx.Delete", svcOk /\ podOk))

\* ------------------------------------------------------------------ RunCBIBuild
\* the defer is forgotten
NoDeferNginxDelete(defers) == defers

\* line 58: defer nginx.Delete(ctx)
DeferNginxDelete(defers) == Push(defers, "nginx.Delete")

\* the join waits for the packaging goroutine only
JoinedOnPackageOnly(c, p) == p \in {"done", "failed"}

\* the join returns as soon as one goroutine has failed
JoinedOnFirstError(c, p) ==
    \/ c = "failed" \/ p = "failed"
    \/ (c = "done" /\ p = "done")

\* errgroup.Wait returns once both goroutines have returned
EgJoined(c, p) == c \in {"done", "failed"} /\ p \in {"done", "failed"}

\* the error of the upload is dropped
AfterCopyIgnoreErr(ok) == "Run_Fulfill"

\* line 93-95: the upload is followed by the Fulfill only if it succeeded
AfterCopyPc(ok) == IF ok THEN "Run_Fulfill" ELSE "Run_Return"

\* the function returns with its deferred calls still pending
DefersSkipped(defers) == TRUE

\* a function returns to its caller once its deferred calls have run
DefersDone(defers) == defers = <<>>

\* the deferred Delete assigns its error to a named result
DeferredErrWins(ret, deferredErr) ==
    IF deferredErr # NoErr THEN [val |-> EmptyName, err |-> deferredErr] ELSE ret

\* a deferred call's result is discarded: the caller gets the return statement's operands
ReturnAfterDefers(ret, deferredErr) == ret

\* RunCBIBuild, line 48-58
Run_Enter ==
    /\ pc = "Run_Enter"
    /\ IF APIVersion(cbiT) # V1Alpha1
       THEN /\ runRet' = [val |-> EmptyName, err |-> Err("unsupported CBI API version", NoStatus)]
            /\ pc' = "Run_Return"
            /\ log' = Append(log, Ev("VersionCheck", FALSE))
            /\ UNCHANGED <<nginx, runDefers, nginxSeq>>
       ELSE \E ok \in BOOLEAN :
            /\ log' = log \o <<Ev("VersionCheck", TRUE), Ev("kubernetes.NewForConfig", ok)>>
                          \o (IF ok THEN <<Ev("NewTempNginx", TRUE)>> ELSE <<>>)
            /\ IF ok
               THEN /\ nginx' = NewTempNginx(nginxSeq + 1)
                    /\ nginxSeq' = nginxSeq + 1
                    /\ runDefers' = DeferNginxDelete(runDefers)
                    /\ pc' = "Run_TempFile"
                    /\ runRet' = runRet
               ELSE /\ runRet' = [val |-> EmptyName, err |-> Err("kubernetes.NewForConfig", NoStatus)]
                    /\ pc' = "Run_Return"
                    /\ UNCHANGED <<nginx, runDefers, nginxSeq>>
    /\ UNCHANGED <<buildVars, createPc, pkgPc, egErr, imageDst, ctxTarURL, nginxDelErr,
                   monVars, cpVars, genSeq, touched, submitted, cancelled>>

\* RunCBIBuild, line 59-63
Run_TempFile ==
    /\ pc = "Run_TempFile"
    /\ \E ok \in BOOLEAN :
        /\ log' = Append(log, Ev("TempFile", ok))
        /\ IF ok
           THEN /\ runDefers' = Push(runDefers, "os.Remove")
                /\ pc' = "Run_EgGo"
                /\ runRet' = runRet
           ELSE /\ runRet' = [val |-> EmptyName, err |-> Err("TempFile", NoStatus)]
                /\ pc' = "Run_Return"
                /\ runDefers' = runDefers
    /\ UNCHANGED <<buildVars, nginx, createPc, pkgPc, egErr, imageDst, ctxTarURL, nginxDelErr,
                   monVars, cpVars, histVars, cancelled>>

\* RunCBIBuild, line 65-83: the two eg.Go calls
Run_EgGo ==
    /\ pc = "Run_EgGo"
    /\ createPc' = "pod"
    /\ pkgPc' = "run"
    /\ pc' = "Run_EgWait"
    /\ UNCHANGED <<buildVars, nginx, runDefers, runRet, egErr, imageDst, ctxTarURL, nginxDelErr,
                   monVars, cpVars, histVars, cancelled, log>>

\* RunCBIBuild, line 84-90: eg.Wait, then the URL under which the archive is served
Run_EgWait ==
    /\ pc = "Run_EgWait"
    /\ EgJoined(createPc, pkgPc)
    /\ IF egErr # NoErr
       THEN /\ runRet' = [val |-> EmptyName, err |-> egErr]
            /\ pc' = "Run_Return"
            /\ ctxTarURL' = ctxTarURL
       ELSE /\ ctxTarURL' = <<"http", nginx.service, <<"sha256", cur>>>>
            /\ pc' = "Run_Copy"
            /\ runRet' = runRet
    /\ log' = Append(log, Ev("eg.Wait", egErr = NoErr))
    /\ UNCHANGED <<buildVars, nginx, runDefers, createPc, pkgPc, egErr, imageDst, nginxDelErr,
                   monVars, cpVars, histVars, cancelled>>

\* RunCBIBuild, line 93-95, TempNginx.Copy: kubectl cp, then kubectl exec chmod, both
\* started with exec.CommandContext(ctx, ...), which fails once ctx is done
Run_Copy ==
    /\ pc = "Run_Copy"
    /\ \E failing \in {"none", "kubectl cp", "kubectl exec chmod"} :
        /\ cancelled => failing # "none"
        /\ log' = Append(log, Ev("Copy", failing = "none"))
        /\ pc' = AfterCopyPc(failing = "none")
        /\ runRet' = IF failing = "none" THEN runRet
                     ELSE [val |-> EmptyName, err |-> Wrap(Err(failing, NoStatus), "output")]
    /\ UNCHANGED <<buildVars, nginx, runDefers, createPc, pkgPc, egErr, imageDst, ctxTarURL,
                   nginxDelErr, monVars, cpVars, histVars, cancelled>>

\* RunCBIBuild, line 97-108: the initial tag, Fulfill (which returns nil) and BuildJob()
Run_Fulfill ==
    /\ pc = "Run_Fulfill"
    /\ \E initialTag \in RandomIDs :
        LET dst == <<ImageName(cur), initialTag>>
            gen == <<"skaffold", genSeq + 1>> IN
        /\ imageDst' = dst
        /\ genSeq' = IF cbiT.name = EmptyName THEN genSeq + 1 ELSE genSeq
        /\ cbiT' = Fulfill(cbiT, dst, ctxTarURL, gen)
    /\ log' = Append(log, Ev("Fulfill", TRUE))
    /\ pc' = "Run_CbiClient"
    /\ UNCHANGED <<n, tmplDecl, res, buildRet, cur, got, nginx, runDefers, runRet, createPc,
                   pkgPc, egErr, ctxTarURL, nginxDelErr, monVars, cpVars, nginxSeq, touched,
                   submitted, cancelled>>

\* RunCBIBuild, line 110-115: the CBI clientset, then the call of runCBIBuildV1Alpha1
Run_CbiClient ==
    /\ pc = "Run_CbiClient"
    /\ \E ok \in BOOLEAN :
        /\ log' = Append(log, Ev("cbiclientset.NewForConfig", ok))
        /\ IF ok
           THEN /\ pc' = "Mon_Create"
                /\ bjName' = cbiT.name
                /\ runRet' = runRet
           ELSE /\ runRet' = [val |-> EmptyName, err |-> Err("cbiclientset.NewForConfig", NoStatus)]
                /\ pc' = "Run_Return"
                /\ bjName' = bjName
    /\ UNCHANGED <<buildVars, nginx, runDefers, createPc, pkgPc, egErr, imageDst, ctxTarURL,
                   nginxDelErr, monDefers, monRet, bjStatusJob, readyAt, readyPolls, complPolls,
                   lastFetch, complRes, logProc, usedJob, cpVars, histVars, cancelled>>

\* RunCBIBuild returning: the deferred calls run last-in first-out
Run_Deferred ==
    /\ pc = "Run_Return"
    /\ runDefers # <<>>
    /\ runDefers' = Tail(runDefers)
    /\ IF Head(runDefers) = "nginx.Delete"
       THEN /\ NginxDelete
            /\ UNCHANGED <<jobs, podsCreated, svcsCreated, jobDelReq, registry>>
       ELSE /\ log' = Append(log, Ev("os.Remove", TRUE))
            /\ UNCHANGED <<cpVars, nginxDelErr>>
    /\ UNCHANGED <<buildVars, nginx, runRet, createPc, pkgPc, egErr, imageDst, ctxTarURL,
                   monVars, histVars, pc, cancelled>>

\* RunCBIBuild has returned: Build, line 254-257
Run_Return ==
    /\ pc = "Run_Return"
    /\ DefersDone(runDefers)
    /\ LET r == ReturnAfterDefers(runRet, nginxDelErr) IN
        /\ got' = r
        /\ IF r.err # NoErr
           THEN /\ buildRet' = BuildFail(res, Wrap(r.err, "running cbi build"))
                /\ pc' = BuildErrPc(cur, n)
           ELSE /\ pc' = "Build_Digest"
                /\ buildRet' = buildRet
    /\ UNCHANGED <<n, tmplDecl, cbiT, res, cur, runVars, monVars, cpVars, histVars, cancelled, log>>

\* ------------------------------------------------------------------ runCBIBuildV1Alpha1
\* what the status source reports as Status.Job at its k-th answer
StatusJobAt(k, at, name) == IF k >= at THEN <<"job", name>> ELSE EmptyName

\* a failed Get is retried at the next tick
ReadyRetryOnFetchError(fetchOk, statusJob) ==
    IF ~fetchOk \/ statusJob = EmptyName THEN [done |-> FALSE, err |-> NoErr]
    ELSE [done |-> TRUE, err |-> NoErr]

\* any fetched status ends the poll
ReadyOnAnyStatus(fetchOk, statusJob) ==
    IF ~fetchOk THEN [done |-> FALSE, err |-> Err("not found", NoStatus)]
    ELSE [done |-> TRUE, err |-> NoErr]

\* line 131-144: the condition of the readiness poll
BuildJobReadyCondition(fetchOk, statusJob) ==
    IF ~fetchOk THEN [done |-> FALSE, err |-> Err("not found", NoStatus)]
    ELSE IF statusJob = EmptyName THEN [done |-> FALSE, err |-> NoErr]
    ELSE [done |-> TRUE, err |-> NoErr]

\* the failure count is not looked at
CompletedIsSuccess(fetchOk, st) ==
    IF ~fetchOk THEN [done |-> FALSE, err |-> Err("not found", NoStatus)]
    ELSE IF st.completed THEN [done |-> TRUE, err |-> NoErr]
    ELSE [done |-> FALSE, err |-> NoErr]

\* waitJobCompletion, line 171-186: the condition of the completion poll
JobCompletionCondition(fetchOk, st) ==
    IF ~fetchOk THEN [done |-> FALSE, err |-> Err("not found", NoStatus)]
    ELSE IF st.completed
    THEN IF st.failed = 0 THEN [done |-> TRUE, err |-> NoErr]
         ELSE [done |-> TRUE, err |-> Err("job failed", st)]
    ELSE [done |-> FALSE, err |-> NoErr]

\* the timeout of the poll is taken for its success
PollTimeoutProceeds(c, polls, max) ==
    IF c.err # NoErr THEN "err"
    ELSE IF c.done \/ polls >= max THEN "done"
    ELSE "continue"

\* the poll has no ceiling: it goes on until the condition is true or fails
PollWithoutTimeout(c, polls, max) ==
    IF c.err # NoErr THEN "err"
    ELSE IF c.done THEN "done"
    ELSE "continue"

\* wait.PollImmediate after the polls-th call of the condition returned c
PollOutcome(c, polls, max) ==
    IF c.err # NoErr THEN "err"
    ELSE IF c.done THEN "done"
    ELSE IF polls >= max THEN "timeout"
    ELSE "continue"

ErrWaitTimeout == Err("timed out waiting for the condition", NoStatus)

\* the BuildJob is never deleted
NoDeferJobDelete(defers, name) == defers

\* line 128: defer cbiC.BuildJobs(kubeNS).Delete(bj.Name, nil); the argument is
\* evaluated by the defer statement
DeferJobDelete(defers, name) == Push(defers, [f |-> "BuildJobs.Delete", arg |-> name])

\* the log process is left running
NoDeferKill(defers) == defers

\* line 157: defer jobW.Process.Kill()
DeferKill(defers) == Push(defers, [f |-> "Process.Kill", arg |-> EmptyName])

\* line 124-128: the BuildJob is created; its Delete is deferred with the name it has now
Mon_Create ==
    /\ pc = "Mon_Create"
    /\ \E ok \in BOOLEAN, at \in 1..(ReadyMaxPolls + 1) :
        /\ ok => bjName \notin jobs
        /\ ~ok => at = 1
        /\ log' = Append(log, Ev("BuildJobs.Create", ok))
        /\ submitted' = Append(submitted, bjName)
        /\ IF ok
           THEN /\ jobs' = jobs \cup {bjName}
                /\ monDefers' = DeferJobDelete(monDefers, bjName)
                /\ readyAt' = at
                /\ pc' = "Mon_ReadyPoll"
                /\ UNCHANGED <<monRet, bjName>>
           ELSE /\ monRet' = Err("BuildJobs.Create", NoStatus)
                /\ bjName' = EmptyName
                /\ pc' = "Mon_Return"
                /\ UNCHANGED <<jobs, monDefers, readyAt>>
    /\ UNCHANGED <<buildVars, runVars, bjStatusJob, readyPolls, complPolls, lastFetch, complRes,
                   logProc, usedJob, pods, services, podsCreated, svcsCreated, podDelReq,
                   svcDelReq, jobDelReq, registry, nginxSeq, genSeq, touched, cancelled>>

\* line 131-146: one call of the readiness condition; a failed Get leaves bj empty
Mon_ReadyPoll ==
    /\ pc = "Mon_ReadyPoll"
    /\ \E fetchOk \in BOOLEAN :
        LET k == readyPolls + 1
            fetched == IF fetchOk THEN StatusJobAt(k, readyAt, bjName) ELSE EmptyName
            out == PollOutcome(BuildJobReadyCondition(fetchOk, fetched), k, ReadyMaxPolls) IN
        /\ readyPolls' = k
        /\ bjStatusJob' = fetched
        /\ bjName' = IF fetchOk THEN bjName ELSE EmptyName
        /\ log' = IF out = "continue" THEN log ELSE Append(log, Ev("ReadyPoll", out = "done"))
        /\ pc' = CASE out = "continue" -> "Mon_ReadyPoll"
                   [] out = "done" -> "Mon_PodReady"
                   [] OTHER -> "Mon_Return"
        /\ monRet' = CASE out = "err" -> BuildJobReadyCondition(fetchOk, fetched).err
                       [] out = "timeout" -> ErrWaitTimeout
                       [] OTHER -> monRet
    /\ UNCHANGED <<buildVars, runVars, monDefers, readyAt, complPolls, lastFetch, complRes,
                   logProc, usedJob, cpVars, histVars, cancelled>>

\* line 150-152, waitJobPodReady: a sleep of 10 seconds, always nil
Mon_PodReady ==
    /\ pc = "Mon_PodReady"
    /\ usedJob' = Append(usedJob, bjStatusJob)
    /\ log' = Append(log, Ev("waitJobPodReady", TRUE))
    /\ pc' = "Mon_LogStart"
    /\ UNCHANGED <<buildVars, runVars, monDefers, monRet, bjName, bjStatusJob, readyAt,
                   readyPolls, complPolls, lastFetch, complRes, logProc, cpVars, histVars,
                   cancelled>>

\* line 153-157: kubectl logs --follow is started under ctx; its Kill is deferred
Mon_LogStart ==
    /\ pc = "Mon_LogStart"
    /\ \E ok \in BOOLEAN :
        /\ cancelled => ~ok
        /\ log' = Append(log, Ev("jobW.Start", ok))
        /\ usedJob' = Append(usedJob, bjStatusJob)
        /\ IF ok
           THEN /\ logProc' = "running"
                /\ monDefers' = DeferKill(monDefers)
                /\ pc' = "Mon_Completion"
                /\ monRet' = monRet
           ELSE /\ monRet' = Err("jobW.Start", NoStatus)
                /\ pc' = "Mon_Return"
                /\ UNCHANGED <<logProc, monDefers>>
    /\ UNCHANGED <<buildVars, runVars, bjName, bjStatusJob, readyAt, readyPolls, complPolls,
                   lastFetch, complRes, cpVars, histVars, cancelled>>

\* line 158-160, waitJobCompletion: one call of the completion condition; a job that
\* completed without failures has pushed its registry target
Mon_CompletionPoll ==
    /\ pc = "Mon_Completion"
    /\ \E fetchOk \in BOOLEAN, st \in JobStatuses :
        LET k == complPolls + 1
            c == JobCompletionCondition(fetchOk, st)
            out == PollOutcome(c, k, CompletionMaxPolls) IN
        /\ ~fetchOk => st = [completed |-> FALSE, failed |-> 0]
        /\ complPolls' = k
        /\ lastFetch' = [ok |-> fetchOk, status |-> IF fetchOk THEN st ELSE NoStatus]
        /\ complRes' = out
        /\ usedJob' = IF complPolls = 0 THEN Append(usedJob, bjStatusJob) ELSE usedJob
        /\ registry' = IF fetchOk /\ st.completed /\ st.failed = 0
                       THEN registry \cup {cbiT.target} ELSE registry
        /\ log' = IF out = "continue" THEN log
                  ELSE Append(log, Ev("waitJobCompletion", out = "done"))
        /\ pc' = IF out = "continue" THEN "Mon_Completion" ELSE "Mon_Return"
        /\ monRet' = CASE out = "err" -> c.err
                       [] out = "timeout" -> ErrWaitTimeout
                       [] OTHER -> monRet
    /\ UNCHANGED <<buildVars, runVars, monDefers, bjName, bjStatusJob, readyAt, readyPolls,
                   logProc, pods, services, jobs, podsCreated, svcsCreated, podDelReq,
                   svcDelReq, jobDelReq, histVars, cancelled>>

\* runCBIBuildV1Alpha1 returning: Process.Kill, then BuildJobs.Delete
Mon_Deferred ==
    /\ pc = "Mon_Return"
    /\ monDefers # <<>>
    /\ monDefers' = Tail(monDefers)
    /\ LET d == Head(monDefers) IN
       IF d.f = "Process.Kill"
       THEN /\ logProc' = IF logProc = "running" THEN "killed" ELSE logProc
            /\ log' = Append(log, Ev("Process.Kill", logProc = "running"))
            /\ UNCHANGED <<jobs, jobDelReq>>
       ELSE \E ok \in BOOLEAN :
            /\ ok => DeleteCanSucceed(d.arg, jobs)
            /\ jobDelReq' = DeleteRequested(d.arg, jobDelReq)
            /\ jobs' = IF ok THEN jobs \ {d.arg} ELSE jobs
            /\ log' = Append(log, Ev("BuildJobs.Delete", ok))
            /\ logProc' = logProc
    /\ UNCHANGED <<buildVars, runVars, monRet, bjName, bjStatusJob, readyAt, readyPolls,
                   complPolls, lastFetch, complRes, usedJob, pods, services, podsCreated,
                   svcsCreated, podDelReq, svcDelReq, registry, histVars, pc, cancelled>>

\* runCBIBuildV1Alpha1 has returned: RunCBIBuild, line 115-119
Mon_Return ==
    /\ pc = "Mon_Return"
    /\ DefersDone(monDefers)
    /\ runRet' = IF monRet # NoErr THEN [val |-> EmptyName, err |-> monRet]
                 ELSE [val |-> imageDst, err |-> NoErr]
    /\ pc' = "Run_Return"
    /\ UNCHANGED <<buildVars, nginx, runDefers, createPc, pkgPc, egErr, imageDst, ctxTarURL,
                   nginxDelErr, monVars, cpVars, histVars, cancelled, log>>

\* ------------------------------------------------------------------ Build, the tail
\* docker.RemoteDigest and the Tagger, as functions of their arguments
RemoteDigest(ref) == <<"sha256", ref>>
GenerateFullyQualifiedImageName(imageName, digest) == <<imageName, digest>>

\* Build, line 258-261
Build_Digest ==
    /\ pc = "Build_Digest"
    /\ \E ok \in BOOLEAN :
        /\ ok => got.val \in registry
        /\ log' = Append(log, Ev("RemoteDigest", ok))
        /\ IF ok
           THEN pc' = "Build_GenTag" /\ buildRet' = buildRet
           ELSE /\ buildRet' = BuildFail(res, Wrap(Err("RemoteDigest", NoStatus), "getting digest"))
                /\ pc' = BuildErrPc(cur, n)
    /\ UNCHANGED <<n, tmplDecl, cbiT, res, cur, got, runVars, monVars, cpVars, histVars, cancelled>>

\* Build, line 263-269
Build_GenTag ==
    /\ pc = "Build_GenTag"
    /\ \E ok \in BOOLEAN :
        /\ log' = Append(log, Ev("GenerateFullyQualifiedImageName", ok))
        /\ IF ok
           THEN pc' = "Build_AddTag" /\ buildRet' = buildRet
           ELSE /\ buildRet' = BuildFail(res, Wrap(Err("Tagger", NoStatus), "generating tag"))
                /\ pc' = BuildErrPc(cur, n)
    /\ UNCHANGED <<n, tmplDecl, cbiT, res, cur, got, runVars, monVars, cpVars, histVars, cancelled>>

\* the entry carries a tag of the fixed reference "latest", not the Tagger's
BuildEntryTagOfLatest(imageName, tag, artifact) ==
    [ImageName |-> imageName,
     Tag |-> <<imageName, <<"sha256", <<imageName, "latest">>>>>>,
     Artifact |-> artifact]

\* Build, line 275-279: the Build value appended to res.Builds
BuildEntry(imageName, tag, artifact) ==
    [ImageName |-> imageName, Tag |-> tag, Artifact |-> artifact]

\* Build, line 271-279: docker.AddTag, then the append to res.Builds
Build_AddTag ==
    /\ pc = "Build_AddTag"
    /\ \E ok \in BOOLEAN :
        LET tag == GenerateFullyQualifiedImageName(ImageName(cur), RemoteDigest(got.val)) IN
        /\ IF ok
           THEN /\ registry' = registry \cup {tag}
                /\ res' = Append(res, BuildEntry(ImageName(cur), tag, cur))
                /\ log' = log \o <<Ev("AddTag", TRUE), Ev("append", TRUE)>>
                /\ pc' = "Build_Loop"
                /\ buildRet' = buildRet
           ELSE /\ buildRet' = BuildFail(res, Wrap(Err("AddTag", NoStatus), "tagging image"))
                /\ log' = Append(log, Ev("AddTag", FALSE))
                /\ pc' = BuildErrPc(cur, n)
                /\ UNCHANGED <<registry, res>>
    /\ UNCHANGED <<n, tmplDecl, cbiT, cur, got, runVars, monVars, pods, services, jobs,
                   podsCreated, svcsCreated, podDelReq, svcDelReq, jobDelReq, histVars, cancelled>>

\* ------------------------------------------------------------------ specification
Next ==
    \/ Build_GetTemplate
    \/ Build_GetClientConfig
    \/ Build_NextArtifact
    \/ Build_ReturnRes
    \/ Cancel
    \/ Create_Pod
    \/ Create_Service
    \/ Create_WaitForPodReady
    \/ Package
    \/ Run_Enter
    \/ Run_TempFile
    \/ Run_EgGo
    \/ Run_EgWait
    \/ Run_Copy
    \/ Run_Fulfill
    \/ Run_CbiClient
    \/ Run_Deferred
    \/ Run_Return
    \/ Mon_Create
    \/ Mon_ReadyPoll
    \/ Mon_PodReady
    \/ Mon_LogStart
    \/ Mon_CompletionPoll
    \/ Mon_Deferred
    \/ Mon_Return
    \/ Build_Digest
    \/ Build_GenTag
    \/ Build_AddTag

Spec == Init /\ [][Next]_vars

\* the steps of runCBIBuildV1Alpha1, taken by the goroutine that called Build
MonNext ==
    \/ Mon_Create
    \/ Mon_ReadyPoll
    \/ Mon_PodReady
    \/ Mon_LogStart
    \/ Mon_CompletionPoll
    \/ Mon_Deferred
    \/ Mon_Return

\* Build of one artifact
InitSingle == Init /\ n = 1

\* Build of one artifact with a calling goroutine that keeps running inside
\* runCBIBuildV1Alpha1: every control-plane call returns, the sleep ends, each poll
\* tick comes
LiveSpec == InitSingle /\ [][Next]_vars /\ WF_vars(MonNext)

\* ------------------------------------------------------------------ properties
DeferredOps == {"nginx.Delete", "BuildJobs.Delete", "Process.Kill", "os.Remove"}
BuildTailOps == {"RemoteDigest", "GenerateFullyQualifiedImageName", "AddTag", "append"}
\* a step of the pipeline (not a deferred call) failed before position k of the log
StepFailedBefore(k) ==
    \E j \in 1..(k - 1) : ~log[j].ok /\ log[j].op \notin DeferredOps
StepFailed == StepFailedBefore(Len(log) + 1)
OkBefore(opA, opB) ==
    \A k \in DOMAIN log : log[k].op = opB => \E j \in 1..(k - 1) : log[j] = Ev(opA, TRUE)
\* RunCBIBuild was called for artifact cur and has returned to Build
RunReturned ==
    cur >= 1 /\ pc \in {"Build_Digest", "Build_GenTag", "Build_AddTag", "Build_Loop", "Build_Done"}

\* C1 (as stated): for a Build of a single artifact, whatever step fails (version check
\* and client creation included) or if none fails, nginx.Delete has been invoked exactly
\* once when Build returns.
C1_DeleteExactlyOnceAlways ==
    (pc = "Build_Done" /\ n = 1) => Count("nginx.Delete") = 1

\* C1 (amended): nginx.Delete is never invoked twice for an artifact; when Build or
\* RunCBIBuild has returned it has been invoked exactly once if the build got as far as
\* constructing the temporary nginx (template, client config, version check and
\* kubernetes client all succeeded), and not at all if one of those steps failed.
C1_DeleteOnceIfConstructed ==
    /\ Count("nginx.Delete") <= 1
    /\ (pc = "Build_Done" \/ RunReturned) =>
          Count("nginx.Delete") = IF Has("kubernetes.NewForConfig", TRUE) THEN 1 ELSE 0

C1_Witness ==
    /\ pc = "Build_Done" /\ n = 1
    /\ buildRet.err # NoErr
    /\ Has("Copy", FALSE)
    /\ Count("nginx.Delete") = 1

\* C2: once RunCBIBuild has returned, every pod and every service that Create created
\* has had a delete request sent for it.
C2_EveryCreatedSubResourceDeleted ==
    RunReturned => podsCreated \subseteq podDelReq /\ svcsCreated \subseteq svcDelReq

\* C3: what RunCBIBuild delivers to Build is what its return statement computed, whether
\* the deferred nginx.Delete failed or not, and a failing Build returns that error wrapped.
C3_DeleteErrorNeverReplacesResult ==
    RunReturned =>
        /\ got = runRet
        /\ got.err # NoErr =>
              buildRet = [res |-> Nil, err |-> Wrap(runRet.err, "running cbi build")]

C3_Witness ==
    /\ pc = "Build_Digest"
    /\ nginxDelErr # NoErr
    /\ got = [val |-> imageDst, err |-> NoErr]
    /\ imageDst # EmptyName

\* C4: when Build has returned, its error is non-nil exactly if some step failed, and
\* then its result is nil, whatever was accumulated for earlier artifacts.
C4_FailureReturnsNoResult ==
    pc = "Build_Done" =>
        /\ StepFailed <=> buildRet.err # NoErr
        /\ buildRet.err # NoErr => buildRet.res = Nil

C4_Witness ==
    /\ pc = "Build_Done" /\ cur = 2
    /\ Len(res) = 1
    /\ StepFailed
    /\ buildRet.err # NoErr /\ buildRet.res = Nil

\* C5: artifacts are entered in input order, one at a time, each after the previous one
\* was appended to the result; once a step of artifact cur has failed Build has returned
\* with that failure, and no later artifact was entered.
C5_SequentialStopAtFirstFailure ==
    /\ touched = 1..cur
    /\ nginxSeq <= cur
    /\ cur >= 1 => /\ Len(res) \in {cur - 1, cur}
                   /\ \A k \in 1..Len(res) : res[k].Artifact = k
    /\ cur >= 1 /\ pc \notin {"Build_Loop", "Build_Done"} => Len(res) = cur - 1
    /\ buildRet.err # NoErr =>
          /\ pc = "Build_Done"
          /\ cur >= 1 => Len(res) = cur - 1 /\ StepFailed

C5_Witness ==
    /\ pc = "Build_Done" /\ n = 2 /\ cur = 1
    /\ buildRet.err # NoErr
    /\ touched = {1}

\* C6: the BuildJob is submitted only after a successful Copy, the polls and the log
\* stream start only after a successful submission, and AddTag comes only after the
\* completion poll and RemoteDigest both succeeded.
C6_PipelineOrder ==
    /\ OkBefore("Copy", "BuildJobs.Create")
    /\ Did("BuildJobs.Create") => ~Has("Copy", FALSE)
    /\ (readyPolls > 0 \/ complPolls > 0 \/ Did("waitJobPodReady") \/ Did("jobW.Start"))
          => Has("BuildJobs.Create", TRUE)
    /\ OkBefore("BuildJobs.Create", "ReadyPoll")
    /\ OkBefore("ReadyPoll", "waitJobCompletion")
    /\ OkBefore("waitJobCompletion", "RemoteDigest")
    /\ OkBefore("waitJobCompletion", "AddTag")
    /\ OkBefore("RemoteDigest", "AddTag")

C6_Witness ==
    /\ Has("AddTag", TRUE)
    /\ Has("Copy", TRUE)
    /\ complPolls > 0

\* C7: eg.Wait returns only when both goroutines have returned; the upload happens only
\* if both succeeded; if one failed, RunCBIBuild returns the error of the goroutine that
\* failed first, and neither an upload nor a submission follows.
C7_JoinBeforeUpload ==
    /\ Did("eg.Wait") => createPc \in {"done", "failed"} /\ pkgPc \in {"done", "failed"}
    /\ Did("Copy") => createPc = "done" /\ pkgPc = "done"
    /\ (Did("eg.Wait") /\ (createPc = "failed" \/ pkgPc = "failed")) =>
          /\ ~Did("Copy") /\ ~Did("BuildJobs.Create")
          /\ runRet.err = egErr
          /\ egErr.kind \in {"pods.Create", "services.Create", "WaitForPodReady", "CreateTarGz"}
          /\ egErr.kind = "CreateTarGz" => pkgPc = "failed"
          /\ egErr.kind # "CreateTarGz" => createPc = "failed"

C7_Witness ==
    /\ pc = "Run_Return"
    /\ createPc = "done" /\ pkgPc = "failed"
    /\ runRet.err.kind = "CreateTarGz"

\* C8 (as stated): nginx.Delete is invoked only after a step failed or after the append
\* to the result sequence.
C8_DeleteAfterAppend ==
    \A k \in DOMAIN log :
        log[k].op = "nginx.Delete" =>
            StepFailedBefore(k) \/ \E j \in 1..(k - 1) : log[j].op = "append"

\* C8 (amended): nginx.Delete is the last operation of RunCBIBuild: it comes after the
\* completion poll succeeded or a step failed, nothing of RunCBIBuild follows it, and
\* RemoteDigest, the Tagger, AddTag and the append all come after it.
C8_DeleteEndsRunCBIBuild ==
    /\ \A k \in DOMAIN log :
          log[k].op = "nginx.Delete" =>
              /\ StepFailedBefore(k) \/ \E j \in 1..(k - 1) : log[j] = Ev("waitJobCompletion", TRUE)
              /\ \A j \in (k + 1)..Len(log) : log[j].op \in BuildTailOps
    /\ \A k \in DOMAIN log :
          log[k].op \in BuildTailOps => \E j \in 1..(k - 1) : log[j].op = "nginx.Delete"

C8_Witness ==
    /\ Has("append", TRUE)
    /\ Count("nginx.Delete") = 1

\* C9: after a call of the completion condition: completed with no failure ends the poll
\* with success; completed with failures ends it with an error holding that status; a
\* fetched status without completion time leaves the poll running, or ends it with the
\* timeout exactly at the ceiling.
C9_CompletionByStatus ==
    complPolls > 0 =>
        /\ (lastFetch.ok /\ lastFetch.status.completed /\ lastFetch.status.failed = 0)
              => complRes = "done" /\ monRet = NoErr
        /\ (lastFetch.ok /\ lastFetch.status.completed /\ lastFetch.status.failed > 0)
              => complRes = "err" /\ monRet = Err("job failed", lastFetch.status)
        /\ (lastFetch.ok /\ ~lastFetch.status.completed)
              => /\ complRes \in {"continue", "timeout"}
                 /\ complRes = "timeout" <=> complPolls = CompletionMaxPolls
                 /\ complRes = "timeout" => monRet = ErrWaitTimeout
        /\ complRes = "done" => lastFetch = [ok |-> TRUE, status |-> [completed |-> TRUE, failed |-> 0]]

C9_Witness ==
    /\ complRes = "err"
    /\ lastFetch = [ok |-> TRUE, status |-> [completed |-> TRUE, failed |-> 2]]
    /\ monRet.status.failed = 2

\* C10: if the readiness loop ended with success, it made exactly as many polls as the
\* status source needed to report Status.Job, the reference fetched by that poll is the
\* one every later stage is given, and no poll follows; the loop times out only if the
\* source does not report within the ceiling.
C10_ReadyAtFirstNonEmpty ==
    /\ Has("ReadyPoll", TRUE) =>
          /\ readyPolls = readyAt
          /\ readyAt <= ReadyMaxPolls
          /\ bjStatusJob = <<"job", cbiT.name>>
          /\ \A k \in DOMAIN usedJob : usedJob[k] = bjStatusJob
    /\ (pc \in {"Mon_PodReady", "Mon_LogStart", "Mon_Completion"}) => Has("ReadyPoll", TRUE)
    /\ (Has("ReadyPoll", FALSE) /\ monRet = ErrWaitTimeout) => readyAt > ReadyMaxPolls

C10_Witness ==
    /\ Has("ReadyPoll", TRUE)
    /\ readyAt = 2 /\ readyPolls = 2
    /\ Len(usedJob) = 3

\* runCBIBuildV1Alpha1 is not running: it was not called yet for this artifact, or it
\* has returned to RunCBIBuild
MonNotRunning ==
    pc \in {"Run_Return", "Build_Digest", "Build_GenTag", "Build_AddTag", "Build_Loop",
            "Build_Done"}
\* a Get of the readiness poll failed (it left bj empty)
ReadyFetchFailed == readyPolls > 0 /\ bjName = EmptyName

\* C11: if the status source does not report Status.Job within the ceiling, the
\* readiness loop makes its last poll at the ceiling and ends with the timeout error,
\* which RunCBIBuild and Build return; waitJobPodReady, the log stream and the
\* completion poll are never started.
C11_ReadinessTimeout ==
    /\ readyPolls <= ReadyMaxPolls
    /\ readyAt > ReadyMaxPolls =>
          /\ ~Has("ReadyPoll", TRUE)
          /\ ~Did("waitJobPodReady") /\ ~Did("jobW.Start")
          /\ complPolls = 0 /\ logProc = "none" /\ usedJob = <<>>
    /\ (Has("ReadyPoll", FALSE) /\ ~ReadyFetchFailed) =>
          /\ monRet = ErrWaitTimeout
          /\ readyPolls = ReadyMaxPolls /\ readyAt > ReadyMaxPolls
          /\ MonNotRunning => runRet = [val |-> EmptyName, err |-> ErrWaitTimeout]
          /\ pc = "Build_Done" =>
                buildRet = [res |-> Nil, err |-> Wrap(ErrWaitTimeout, "running cbi build")]

C11_Witness ==
    /\ pc = "Build_Done"
    /\ Has("ReadyPoll", FALSE)
    /\ readyPolls = ReadyMaxPolls
    /\ buildRet.err.kind = ErrWaitTimeout.kind

\* C12: a failed Get in the readiness loop ends the loop at that poll with the
\* "not found" error: no poll of either loop follows, no later stage starts, and
\* RunCBIBuild and Build fail with that error, also when the status source would have
\* reported Status.Job at a later poll.
C12_ReadyFetchErrorIsFatal ==
    ReadyFetchFailed =>
        /\ monRet = Err("not found", NoStatus)
        /\ Has("ReadyPoll", FALSE)
        /\ pc \notin {"Mon_ReadyPoll", "Mon_PodReady", "Mon_LogStart", "Mon_Completion"}
        /\ complPolls = 0 /\ usedJob = <<>> /\ logProc = "none"
        /\ MonNotRunning => runRet = [val |-> EmptyName, err |-> monRet]
        /\ pc = "Build_Done" =>
              buildRet = [res |-> Nil, err |-> Wrap(monRet, "running cbi build")]

C12_Witness ==
    /\ ReadyFetchFailed
    /\ readyPolls = 1 /\ readyAt = 2
    /\ pc = "Build_Done"

\* C13: the deferred Process.Kill runs after the completion poll returned, whatever
\* the poll returned; once runCBIBuildV1Alpha1 has returned, a log process it started
\* has been killed, and a log process runs only while the completion poll is running
\* or the function is returning.
C13_LogTaskKilled ==
    /\ \A k \in DOMAIN log :
          log[k].op = "Process.Kill" => \E j \in 1..(k - 1) : log[j].op = "waitJobCompletion"
    /\ (MonNotRunning /\ Has("jobW.Start", TRUE)) =>
          /\ Count("Process.Kill") = 1
          /\ logProc \in {"killed", "killed by ctx"}
    /\ logProc = "running" => pc \in {"Mon_Completion", "Mon_Return"}
    /\ Did("Process.Kill") => Has("jobW.Start", TRUE)

C13_Witness ==
    /\ MonNotRunning
    /\ Has("waitJobCompletion", FALSE)
    /\ monRet = ErrWaitTimeout
    /\ Has("Process.Kill", TRUE)

\* C14: once runCBIBuildV1Alpha1 has returned, BuildJobs.Delete was called exactly once
\* for the created BuildJob if BuildJobs.Create succeeded and not at all if it failed;
\* RunCBIBuild returns what the monitor returned, whether that Delete succeeded or not.
C14_JobDeletedOnce ==
    /\ Count("BuildJobs.Delete") <= 1
    /\ (MonNotRunning /\ cur >= 1) =>
          /\ Count("BuildJobs.Delete") = IF Has("BuildJobs.Create", TRUE) THEN 1 ELSE 0
          /\ Has("BuildJobs.Create", TRUE) => submitted[Len(submitted)] \in jobDelReq
          /\ Did("BuildJobs.Create") =>
                runRet = IF monRet # NoErr THEN [val |-> EmptyName, err |-> monRet]
                         ELSE [val |-> imageDst, err |-> NoErr]
          /\ Has("BuildJobs.Create", FALSE) => monRet = Err("BuildJobs.Create", NoStatus)
          /\ Has("waitJobCompletion", TRUE) => monRet = NoErr

C14_Witness ==
    /\ pc = "Build_Digest"
    /\ Has("BuildJobs.Create", TRUE)
    /\ Has("BuildJobs.Delete", FALSE)
    /\ runRet.err = NoErr

\* C15: once ctx is cancelled, the readiness poll, waitJobPodReady and the completion
\* poll do not go on: their next step is the return of runCBIBuildV1Alpha1 with an error.
C15_CancelAbortsWaits ==
    [][(cancelled /\ pc \in {"Mon_ReadyPoll", "Mon_PodReady", "Mon_Completion"})
          => (pc' = "Mon_Return" /\ monRet' # NoErr)]_vars

\* ------------------------------------------------------------------ Fulfill alone
\* The template as a function of its calls: a BuildJob with any of its fields set or
\* empty is fulfilled up to MaxFulfillCalls times, with any target and context URL.
\* tmplDecl keeps the BuildJob as it was declared, cur counts the calls, imageDst and
\* ctxTarURL hold the arguments of the last call.
FulfillTemplates ==
    [apiVersion : {"", V1Alpha1}, kind : {"", "CustomKind"},
     name : {EmptyName, <<"userjob">>}, langKind : {"", "S2I"},
     target : {EmptyName, <<"stale">>}, push : BOOLEAN, ctxKind : {"", "Git"},
     ctxURL : {EmptyName, <<"http", "old">>}, secretRef : {EmptyName, <<"regcred">>}]
FulfillTargets == {<<ImageName(1), "r1">>, <<"stale">>}
FulfillURLs == {<<"http", <<"tempnginx", 1>>, <<"sha256", 1>>>>, <<"http", "old">>}

InitFulfill ==
    /\ n = 1
    /\ tmplDecl \in FulfillTemplates
    /\ cbiT = tmplDecl
    /\ res = <<>>
    /\ buildRet = [res |-> Nil, err |-> NoErr]
    /\ cur = 0
    /\ got = [val |-> EmptyName, err |-> NoErr]
    /\ pc = "Fulfill"
    /\ cancelled = FALSE
    /\ FreshRun
    /\ FreshMon
    /\ pods = {} /\ services = {} /\ jobs = {}
    /\ podsCreated = {} /\ svcsCreated = {}
    /\ podDelReq = {} /\ svcDelReq = {} /\ jobDelReq = {}
    /\ registry = {}
    /\ nginxSeq = 0 /\ genSeq = 0 /\ touched = {} /\ submitted = <<>>
    /\ log = <<>>

\* one call t.Fulfill(imageName, httpContextURL)
Fulfill_Call ==
    /\ pc = "Fulfill"
    /\ cur < MaxFulfillCalls
    /\ \E imageName \in FulfillTargets, httpContextURL \in FulfillURLs :
        /\ cbiT' = Fulfill(cbiT, imageName, httpContextURL, <<"skaffold", genSeq + 1>>)
        /\ imageDst' = imageName
        /\ ctxTarURL' = httpContextURL
    /\ genSeq' = IF cbiT.name = EmptyName THEN genSeq + 1 ELSE genSeq
    /\ cur' = cur + 1
    /\ UNCHANGED <<n, tmplDecl, res, buildRet, got, nginx, runDefers, runRet, createPc, pkgPc,
                   egErr, nginxDelErr, monVars, cpVars, nginxSeq, touched, submitted, pc,
                   cancelled, log>>

NextFulfill == Fulfill_Call

FulfillSpec == InitFulfill /\ [][NextFulfill]_vars

\* C16: after any number of Fulfill calls on any template, the registry target is the
\* target image of the last call, push is true, the context kind is HTTP and the
\* context URL is the URL of the last call, whatever these fields held before.
C16_FulfillOverrides ==
    cur >= 1 =>
        /\ cbiT.target = imageDst
        /\ cbiT.push = TRUE
        /\ cbiT.ctxKind = "HTTP"
        /\ cbiT.ctxURL = ctxTarURL

C16_Witness ==
    /\ cur = 2
    /\ tmplDecl.target = <<"stale">> /\ tmplDecl.ctxKind = "Git" /\ tmplDecl.push = FALSE
    /\ imageDst = <<ImageName(1), "r1">>
    /\ cbiT.target = <<ImageName(1), "r1">>
    /\ cbiT.ctxURL = <<"http", <<"tempnginx", 1>>, <<"sha256", 1>>>>

C18_UnsupportedVersionFailsFirst ==
    /\ tmplDecl.apiVersion \notin {"", V1Alpha1} =>
        /\ pc \in {"Build_GetTemplate", "Build_Done"}
        /\ cbiT = Nil /\ cur = 0 /\ touched = {}
        /\ genSeq = 0 /\ ~Did("Fulfill")
        /\ nginxSeq = 0 /\ podsCreated = {} /\ svcsCreated = {}
        /\ createPc = "idle" /\ pkgPc = "idle"
        /\ submitted = <<>> /\ jobs = {}
        /\ pc = "Build_Done" =>
            /\ buildRet.res = Nil
            /\ buildRet.err.kind = "expected v1alpha1"
            /\ log = <<Ev("GetBuildJobTemplate", FALSE)>>
    /\ (tmplDecl.apiVersion = "" /\ ~tmplDecl.unknownField /\ pc # "Build_GetTemplate") =>
        /\ DOMAIN cbiT = DOMAIN Unmarshal(tmplDecl)
        /\ APIVersion(cbiT) = V1Alpha1
        /\ ~Has("VersionCheck", FALSE)
        /\ Did("Fulfill") => cbiT.apiVersion = V1Alpha1
        /\ submitted # <<>> => cbiT.apiVersion = V1Alpha1

\* both cases: the unsupported template has made Build return, or the version-less
\* template has had its BuildJob submitted
C18_Witness ==
    tmplDecl.apiVersion = OtherVersion /\ pc = "Build_Done" /\ buildRet.err # NoErr
C18_WitnessNoVersion ==
    tmplDecl.apiVersion = "" /\ submitted # <<>> /\ cbiT.apiVersion = V1Alpha1

\* C19 (as stated): when the template declares no name, the BuildJobs submitted for
\* different artifacts of one Build carry pairwise distinct names.
C19_DistinctJobNames ==
    tmplDecl.name = EmptyName =>
        \A i, j \in DOMAIN submitted : i # j => submitted[i] # submitted[j]

\* C20: res.Builds holds one entry per finished artifact, in input order: entry k has
\* the image name of artifact k, the tag the Tagger generated from that name and the
\* digest of the image RunCBIBuild returned, and artifact k itself.  The entry of the
\* current artifact exists only if its RunCBIBuild, RemoteDigest, tag generation and
\* AddTag all succeeded.  When Build returns without error it returns this sequence and
\* the sequence has n entries.
C20_ResultSequence ==
    /\ \A k \in DOMAIN res :
        \E r \in RandomIDs :
            res[k] = [ImageName |-> ImageName(k),
                      Tag |-> GenerateFullyQualifiedImageName(ImageName(k),
                                                              RemoteDigest(<<ImageName(k), r>>)),
                      Artifact |-> k]
    /\ cur = 0 => res = <<>>
    /\ cur >= 1 => Len(res) = (IF Has("append", TRUE) THEN cur ELSE cur - 1)
    /\ Has("append", TRUE) =>
        /\ ~StepFailed
        /\ runRet.err = NoErr
        /\ Has("RemoteDigest", TRUE)
        /\ Has("GenerateFullyQualifiedImageName", TRUE)
        /\ Has("AddTag", TRUE)
    /\ (pc = "Build_Done" /\ buildRet.err = NoErr) =>
        /\ buildRet.res = res
        /\ Len(res) = n

C20_Witness ==
    /\ pc = "Build_Done" /\ buildRet.err = NoErr
    /\ n = 2 /\ Len(buildRet.res) = 2
    /\ buildRet.res[1].Artifact = 1 /\ buildRet.res[2].Artifact = 2
    /\ buildRet.res[2].ImageName = ImageName(2)

\* the positions inside runCBIBuildV1Alpha1 and a measure of the work left there: the
\* condition calls the two polls may still make, the steps between them, the deferred
\* calls and the return
MonPcs == {"Mon_Create", "Mon_ReadyPoll", "Mon_PodReady", "Mon_LogStart", "Mon_Completion",
           "Mon_Return"}
MonRank ==
    CASE pc = "Mon_Return" -> Len(monDefers) + 1
      [] pc = "Mon_Completion" -> 4 + (CompletionMaxPolls - complPolls)
      [] pc = "Mon_LogStart" -> 5 + CompletionMaxPolls
      [] pc = "Mon_PodReady" -> 6 + CompletionMaxPolls
      [] pc = "Mon_ReadyPoll" -> 7 + CompletionMaxPolls + (ReadyMaxPolls - readyPolls)
      [] pc = "Mon_Create" -> 8 + CompletionMaxPolls + ReadyMaxPolls
      [] OTHER -> 0

\* C21: inside runCBIBuildV1Alpha1 every step of the calling goroutine lowers MonRank,
\* the readiness poll makes at most ReadyMaxPolls condition calls and the completion
\* poll at most CompletionMaxPolls, and, the goroutine being scheduled, a call of
\* runCBIBuildV1Alpha1 always leads to its return to RunCBIBuild, whether or not the
\* BuildJob ever becomes ready or completes and with the log process still running.
C21_MonitorTerminates ==
    /\ [][(pc \in MonPcs /\ cancelled' = cancelled) =>
            /\ MonRank' < MonRank
            /\ readyPolls' <= ReadyMaxPolls
            /\ complPolls' <= CompletionMaxPolls]_vars
    /\ (pc \in MonPcs) ~> (pc = "Run_Return")

\* the BuildJob never completed: the completion poll ran to its ceiling, the log
\* process was still running and was killed, and runCBIBuildV1Alpha1 has returned
C21_Witness ==
    /\ pc = "Run_Return"
    /\ complPolls = CompletionMaxPolls
    /\ monRet = ErrWaitTimeout
    /\ logProc = "killed"
    /\ monDefers = <<>>

\* C22: TempNginx.Create creates the pod first, the service only once the pod is
\* created and waits for the pod only once both are created; a failed step ends Create
\* with an error in the errgroup, and until RunCBIBuild passes eg.Wait nothing that
\* Create has created is deleted or asked to be deleted.
C22_CreateOrderNoRollback ==
    LET x == NewTempNginx(nginxSeq) IN
    /\ createPc = "pod" => (x.pod \notin podsCreated /\ x.service \notin svcsCreated)
    /\ createPc = "svc" => (x.pod \in podsCreated /\ x.service \notin svcsCreated)
    /\ createPc \in {"wait", "done"} => (x.pod \in podsCreated /\ x.service \in svcsCreated)
    /\ svcsCreated \subseteq podsCreated
    /\ createPc = "failed" => egErr # NoErr
    /\ (createPc # "idle" /\ pc = "Run_EgWait") =>
        /\ x.pod \notin podDelReq /\ x.service \notin svcDelReq
        /\ x.pod \in podsCreated => x.pod \in pods
        /\ x.service \in svcsCreated => x.service \in services

\* the wait for the pod failed: Create has returned, pod and service are both left
C22_Witness ==
    LET x == NewTempNginx(nginxSeq) IN
    /\ createPc = "failed" /\ pc = "Run_EgWait"
    /\ egErr.kind = "WaitForPodReady"
    /\ x.pod \in pods /\ x.service \in services

\* the registry holds the initial reference ref (name:tag), the registry holds the
\* final tag t (name@digest)
RegistryHas(ref) == \E x \in registry : x = ref
RegistryHasTag(t) == \E x \in registry : t = x

\* C23: once RunCBIBuild has returned without error, the reference Build holds (the
\* argument of RemoteDigest and the source of AddTag) is the Registry.Target of the
\* BuildJob submitted for the current artifact and is <image name>:<random id>; the
\* entry appended carries the tag generated from the digest of that reference; after
\* AddTag the registry holds the final tag and still holds the initial reference.
C23_InitialReference ==
    /\ pc \in {"Build_Digest", "Build_GenTag", "Build_AddTag"} =>
        /\ got.val = cbiT.target
        /\ got.val = imageDst
        /\ \E r \in RandomIDs : got.val = <<ImageName(cur), r>>
        /\ submitted # <<>> /\ submitted[Len(submitted)] = cbiT.name
        /\ RegistryHas(got.val)
    /\ Has("AddTag", TRUE) =>
        /\ got.val = cbiT.target
        /\ res[cur].Tag = GenerateFullyQualifiedImageName(ImageName(cur),
                                                          RemoteDigest(cbiT.target))
        /\ RegistryHasTag(res[cur].Tag)
        /\ RegistryHas(got.val)

\* the template declared another target; the job pushed image:r2, whose digest was
\* resolved and which got the final tag as a second reference
C23_Witness ==
    /\ Has("AddTag", TRUE)
    /\ tmplDecl.target = <<"stale">>
    /\ got.val = <<ImageName(cur), "r2">>
    /\ RegistryHas(got.val) /\ RegistryHasTag(res[cur].Tag)
    /\ Cardinality(registry) = 2 * cur

\* the BuildJob submitted for the current artifact
LastSubmitted == submitted[Len(submitted)]
Before(opA, opB) ==
    \A i, j \in DOMAIN log : (log[i].op = opA /\ log[j].op = opB) => i < j

\* C24 (as stated): once nginx.Delete has been invoked for an artifact, the BuildJob
\* created for that artifact no longer exists.
C24_NoTeardownWhileJobExists ==
    (Did("nginx.Delete") /\ Has("BuildJobs.Create", TRUE)) => LastSubmitted \notin jobs

\* C24 (amended): Process.Kill of the log process precedes BuildJobs.Delete, which
\* precedes nginx.Delete; nginx.Delete is not invoked while runCBIBuildV1Alpha1 runs;
\* if the BuildJob was created its delete has been requested before nginx.Delete, and
\* if the log process was started it has been killed before that request; the BuildJob
\* is gone at nginx.Delete if its delete succeeded (it may remain if the delete failed,
\* the result of which is discarded).
C24_ReleaseOrder ==
    /\ Before("Process.Kill", "BuildJobs.Delete")
    /\ Before("Process.Kill", "nginx.Delete")
    /\ Before("BuildJobs.Delete", "nginx.Delete")
    /\ pc \in MonPcs => ~Did("nginx.Delete")
    /\ (Did("nginx.Delete") /\ Has("BuildJobs.Create", TRUE)) =>
        /\ Did("BuildJobs.Delete")
        /\ LastSubmitted \in jobDelReq
        /\ Has("BuildJobs.Delete", TRUE) => LastSubmitted \notin jobs
    /\ (Did("BuildJobs.Delete") /\ Has("jobW.Start", TRUE)) =>
        /\ Did("Process.Kill")
        /\ logProc # "running"

\* the log process was killed, the delete of the BuildJob failed and nginx.Delete ran
\* afterwards: the BuildJob is still there
C24_Witness ==
    /\ Has("jobW.Start", TRUE) /\ Did("Process.Kill")
    /\ Has("BuildJobs.Delete", FALSE)
    /\ Did("nginx.Delete")
    /\ LastSubmitted \in jobs

\* TempNginx.Create is running in its goroutine
CreateInFlight == createPc \in {"pod", "svc", "wait"}

\* C25: TempNginx.Create runs only while RunCBIBuild is blocked in eg.Wait; when the
\* deferred nginx.Delete is about to be invoked and after it was invoked, Create has
\* not been started or has returned, whichever of the two goroutines failed first.
C25_DeleteAfterCreateReturned ==
    /\ CreateInFlight => (pc = "Run_EgWait" /\ ~Did("nginx.Delete"))
    /\ (pc = "Run_Return" /\ runDefers # <<>>) => ~CreateInFlight
    /\ Did("nginx.Delete") => ~CreateInFlight

\* packaging failed first, Create failed after it, then nginx.Delete ran
C25_Witness ==
    /\ pkgPc = "failed" /\ egErr.kind = "CreateTarGz"
    /\ createPc = "failed"
    /\ Did("nginx.Delete")

====
